---- MODULE Spec2Model ----
(***************************************************************************)
(* State-machine model of the golf distance tracker / green mapper.        *)
(*                                                                         *)
(* Three programs of the repository are modelled:                          *)
(*   - the second App of src/index.tsx (the same code, compacted and with  *)
(*     another calculateDistance, is src/unnamed/part_003): track with     *)
(*     pivots, green mapper with auto-closure, history of saved records;   *)
(*   - the App of src/App.tsx: tracking path, green mapping with the       *)
(*     Close command, screen wake lock;                                    *)
(*   - the first App of src/index.tsx: its green mapping.                  *)
(* The calculateDistance of every program is modelled apart, on a grid of  *)
(* quarter turns where the haversine is exact.                             *)
(*                                                                         *)
(* Geometry.  All samples lie on one meridian; a latitude is an integer    *)
(* count of quarter-metre steps of arc.  For two points of equal longitude *)
(* the haversine of calculateDistance reduces to R * |lat2 - lat1| (in     *)
(* radians), so a distance is the absolute difference of the two counts,   *)
(* in quarter metres.  Every length of the model is in quarter metres:     *)
(* 0.5 m is 2, 1.0 m is 4, 5 m is 20.                                      *)
(*                                                                         *)
(* React.  One action is one event handler together with the render it     *)
(* causes and the effects that render schedules, repeated until no         *)
(* dependency of an effect changes any more.                               *)
(***************************************************************************)
EXTENDS Integers, Sequences, FiniteSets, TLC

VARIABLES
    \* ---- second App of src/index.tsx ----
    view,                   \* 'landing' | 'track' | 'green'
    pos,                    \* last delivered sample, or Null
    history,                \* saved records, newest first
    trkActive, trkStart, trkPivots, showEndConfirm,
    mapActive, mapCompleted, mapPoints, isBunker, showMapRestartConfirm,
    \* ---- history variable of the verification ----
    closeCause,             \* how the current closure came about
    \* ---- App of src/App.tsx ----
    mode,                   \* 'Trk' | 'Grn'
    currentPos,             \* last accepted sample, or Null
    isGpsInitializing,
    gpsError,               \* TRUE while the GPS warning is shown
    tracking,               \* TrackingState
    mapping,                \* MappingState
    pendingFix,             \* getCurrentPosition requests not yet answered:
                            \* the handlePositionUpdate each one captured
    \* ---- first App of src/index.tsx ----
    v1Mode,                 \* its mode: 'Trk' | 'Grn'
    v1Pos,                  \* its pos: last delivered sample, or Null
    grn,                    \* its MappingState
    \* ---- the distance primitive ----
    geo,                    \* last measurement: the two points and what each
                            \* calculateDistance returns for them, or Null
    \* ---- update queue of the second App of src/index.tsx ----
    queued,                 \* samples given to setPos by callbacks that ran
                            \* since the last render, oldest first
    \* ---- screen wake lock of src/App.tsx ----
    wake                    \* wakeLockRef, the requests in flight, the locks
                            \* held that no reference reaches, visibility

ixVars == <<view, pos, history, trkActive, trkStart, trkPivots,
            showEndConfirm, mapActive, mapCompleted, mapPoints, isBunker,
            showMapRestartConfirm, closeCause>>

appVars == <<mode, currentPos, isGpsInitializing, gpsError, tracking, mapping,
             pendingFix>>

v1Vars == <<v1Mode, v1Pos, grn>>

geoVars == <<geo>>

queueVars == <<queued>>

wakeVars == <<wake>>

vars == <<ixVars, appVars, v1Vars, geoVars, queueVars, wakeVars>>

----------------------------------------------------------------------------
(* Bounds of the model *)

\* largest latitude (quarter metres) a sample of a green walk can have
MaxLat == 4
\* largest latitude of a sample of a green walk with strides of 1.25 m
MaxStrideLat == 5
\* largest number of points held during such a walk
MaxStridePoints == 6
\* largest latitude, in paces of 0.75 m, of a sample of a green walk in paces
MaxPace == 2
\* largest number of points held during a walk in paces
MaxPacePoints == 7
\* largest number of wakeLock.request promises in flight, and of lost locks
MaxWakeRequests == 2
\* largest number of setPos updates waiting for one render
MaxQueued == 2
\* largest longitude (quarter turns) of a point given to calculateDistance
MaxGridLng == 2
\* largest number of points held by the mapper and the history together
MaxPoints == 7
\* largest latitude of a sample while the bunker control / the track is exercised
MaxShortLat == 3
\* largest number of points held while the bunker control / the track is exercised
MaxShortPoints == 3
\* largest latitude of a sample while source failures are exercised
MaxFailLat == 2
\* largest number of points a list holds while source failures are exercised
MaxFailPoints == 2
\* largest altitude (metres) of a sample while the elevation is exercised
MaxAlt == 2
\* largest number of points held while the elevation is exercised
MaxElevPoints == 4

----------------------------------------------------------------------------
(* Values *)

Null == [null |-> TRUE]

NoAlt == << >>

\* GeoPoint as delivered by watchPosition (lat in quarter metres; alt a
\* sequence: empty for a null altitude, <<a>> for a metres)
GeoPoint(lat, alt) == [lat |-> lat, alt |-> alt]

WalkSamples == { GeoPoint(l, NoAlt) : l \in 0..MaxLat }

ShortSamples == { GeoPoint(l, NoAlt) : l \in 0..MaxShortLat }

\* samples 0.75 m (3 quarter metres) apart
PaceSamples == { GeoPoint(3 * k, NoAlt) : k \in 0..MaxPace }

StrideSamples == { GeoPoint(l, NoAlt) : l \in 0..MaxStrideLat }

FailSamples == { GeoPoint(l, NoAlt) : l \in 0..MaxFailLat }

\* samples taken on one spot, with no altitude or with one of 0..MaxAlt
ElevSamples == { GeoPoint(0, a) : a \in {NoAlt} \cup { <<h>> : h \in 0..MaxAlt } }

\* a vertex of mapPoints: the sample with its optional 'type'
Tagged(p, type) == [lat |-> p.lat, alt |-> p.alt, type |-> type]

Abs(x) == IF x < 0 THEN -x ELSE x

calculateDistance(p1, p2) == Abs(p2.lat - p1.lat)

\* Math.round(x / y * 100) for x >= 0, y > 0 (halves round up)
RoundPct(x, y) == (200 * x + y) \div (2 * y)

Last(s) == s[Len(s)]

----------------------------------------------------------------------------
(* Program constants, in quarter metres where they are lengths *)

\* movement filter of the mapper: 0.5 m
MovementThreshold == 2
\* closure radius: 1.0 m
ClosureRadius == 4
\* minimum perimeter for auto-closure: 5 m
MinPerimeter == 20
\* minimum vertex count for auto-closure
MinVertexCount == 5
\* a closing edge needs more than this many points
MinClosedPoints == 2
\* most pivots a track can hold
MaxPivots == 3
\* movement filter of the first App of src/index.tsx: 0.4 m lies between one
\* and two quarter-metre steps, so a distance passes it from 2 steps on
V1MovementThreshold == 2
\* its CLOSE LOOP button needs this many vertices
V1MinClosePoints == 3
\* movement filter of the tracking path of src/App.tsx: 0.1 m is less than
\* one quarter-metre step, so only a distance below 1 step (that is, 0) is
\* filtered
PathThreshold == 1

----------------------------------------------------------------------------
(* Metrics of the second App of src/index.tsx *)

\* the loop of areaMetrics: sum of d(points[i], points[i+1]) for i < n
RECURSIVE EdgeSum(_, _)
EdgeSum(points, n) ==
    IF n < 2 THEN 0
    ELSE EdgeSum(points, n - 1) + calculateDistance(points[n - 1], points[n])

\* the same loop, counting the edges whose destination is typed 'bunker'
RECURSIVE BunkerSum(_, _)
BunkerSum(points, n) ==
    IF n < 2 THEN 0
    ELSE BunkerSum(points, n - 1)
         + (IF points[n].type = "bunker"
            THEN calculateDistance(points[n - 1], points[n]) ELSE 0)

areaMetrics(points, completed) ==
    IF Len(points) < 2 THEN Null
    ELSE LET open == EdgeSum(points, Len(points))
             bunkerLength == BunkerSum(points, Len(points))
             isClosed == completed
                         \/ (Len(points) > MinClosedPoints
                             /\ calculateDistance(Last(points), points[1]) < ClosureRadius)
             perimeter == IF isClosed /\ Len(points) > MinClosedPoints
                          THEN open + calculateDistance(Last(points), points[1])
                          ELSE open
         IN [perimeter |-> perimeter,
             bunkerLength |-> bunkerLength,
             bunkerPct |-> IF perimeter > 0 THEN RoundPct(bunkerLength, perimeter) ELSE 0]

\* areaMetrics of src/index-fallback.tsx: the closing edge is always added
fallbackAreaMetrics(points) ==
    IF Len(points) < 3 THEN Null
    ELSE [perimeter |-> EdgeSum(points, Len(points))
                        + calculateDistance(Last(points), points[1])]

----------------------------------------------------------------------------
(* The React state of the second App as one value *)

St == [view |-> view, pos |-> pos, history |-> history,
       trkActive |-> trkActive, trkStart |-> trkStart, trkPivots |-> trkPivots,
       showEndConfirm |-> showEndConfirm,
       mapActive |-> mapActive, mapCompleted |-> mapCompleted,
       mapPoints |-> mapPoints, isBunker |-> isBunker,
       showMapRestartConfirm |-> showMapRestartConfirm,
       closeCause |-> closeCause]

\* saveRecord: the new record is put in front of the history of the render
saveRecord(s, record) == [s EXCEPT !.history = <<record>> \o s.history]

\* finalizeMapping as created by the render of state s
finalizeMapping(s, cause) ==
    LET m == areaMetrics(s.mapPoints, s.mapCompleted)
        saved == IF m # Null
                 THEN saveRecord(s, [type |-> "Green", bunkerPct |-> m.bunkerPct,
                                     points |-> s.mapPoints, pivots |-> << >>])
                 ELSE s
    IN [saved EXCEPT !.mapActive = FALSE, !.mapCompleted = TRUE,
                     !.closeCause = cause]

\* a sampling updater that admits every sample that moved at all
admitSampleAnyMove(prev, p, bunker) ==
    IF prev = << >> \/ calculateDistance(Last(prev), p) > 0
    THEN Append(prev, Tagged(p, IF bunker THEN "bunker" ELSE "green"))
    ELSE prev

\* a sampling updater that also admits a sample whose tag differs from the
\* tag of the last vertex
admitSampleOnNewTag(prev, p, bunker) ==
    IF \/ prev = << >>
       \/ calculateDistance(Last(prev), p) >= MovementThreshold
       \/ Last(prev).type # (IF bunker THEN "bunker" ELSE "green")
    THEN Append(prev, Tagged(p, IF bunker THEN "bunker" ELSE "green"))
    ELSE prev

\* a sampling updater that puts the admitted sample in the place of the last
\* vertex
admitSampleOverLast(prev, p, bunker) ==
    IF prev = << >> \/ calculateDistance(Last(prev), p) >= MovementThreshold
    THEN Append(SubSeq(prev, 1, Len(prev) - 1),
                Tagged(p, IF bunker THEN "bunker" ELSE "green"))
    ELSE prev

\* the updater given to setMapPoints by the sampling effect
admitSample(prev, p, bunker) ==
    IF prev = << >> \/ calculateDistance(Last(prev), p) >= MovementThreshold
    THEN Append(prev, Tagged(p, IF bunker THEN "bunker" ELSE "green"))
    ELSE prev

\* the condition under which the sampling effect calls finalizeMapping
autoCloseDue(s) ==
    /\ Len(s.mapPoints) > MinVertexCount
    /\ areaMetrics(s.mapPoints, s.mapCompleted) # Null
    /\ areaMetrics(s.mapPoints, s.mapCompleted).perimeter > MinPerimeter
    /\ calculateDistance(s.pos, s.mapPoints[1]) < ClosureRadius

\* one run of the sampling effect in the render of state s: the functional
\* update of mapPoints is queued, then finalizeMapping of that render may run
mapSampleEffect(s) ==
    IF s.mapActive /\ s.pos # Null
    THEN LET t == IF autoCloseDue(s) THEN finalizeMapping(s, "auto") ELSE s
         IN [t EXCEPT !.mapPoints = admitSample(s.mapPoints, s.pos, s.isBunker)]
    ELSE s

\* a sampling effect that depends on its inputs only: pos, mapActive, isBunker
effectDepsOnlyInputs(o, n, posNew, ptsNew) ==
    \/ posNew
    \/ o.mapActive # n.mapActive
    \/ o.isBunker # n.isBunker

\* does the render of n, following the render of o, give the sampling effect
\* a changed dependency? (pos, mapActive, isBunker, areaMetrics, finalizeMapping)
effectDepsChanged(o, n, posNew, ptsNew) ==
    LET areaNew == /\ (ptsNew \/ o.mapCompleted # n.mapCompleted)
                   /\ ~ (/\ areaMetrics(o.mapPoints, o.mapCompleted) = Null
                         /\ areaMetrics(n.mapPoints, n.mapCompleted) = Null)
        finalizeNew == areaNew \/ ptsNew \/ o.history # n.history
    IN \/ posNew
       \/ o.mapActive # n.mapActive
       \/ o.isBunker # n.isBunker
       \/ areaNew
       \/ finalizeNew

\* render n after o and run the effect while one of its dependencies changes
RECURSIVE render(_, _, _, _)
render(o, n, posNew, ptsNew) ==
    IF effectDepsChanged(o, n, posNew, ptsNew)
    THEN LET m == mapSampleEffect(n)
         IN render(n, m, FALSE, m.mapPoints # n.mapPoints)
    ELSE n

CommitIx(n) ==
    /\ view' = n.view
    /\ pos' = n.pos
    /\ history' = n.history
    /\ trkActive' = n.trkActive
    /\ trkStart' = n.trkStart
    /\ trkPivots' = n.trkPivots
    /\ showEndConfirm' = n.showEndConfirm
    /\ mapActive' = n.mapActive
    /\ mapCompleted' = n.mapCompleted
    /\ mapPoints' = n.mapPoints
    /\ isBunker' = n.isBunker
    /\ showMapRestartConfirm' = n.showMapRestartConfirm
    /\ closeCause' = n.closeCause
    /\ UNCHANGED appVars
    /\ UNCHANGED v1Vars
    /\ UNCHANGED geoVars
    /\ UNCHANGED wakeVars

\* the commit of a render that takes no queued update of pos
Commit(n) ==
    /\ CommitIx(n)
    /\ UNCHANGED queueVars

\* number of points kept in the history
RECURSIVE HistoryPoints(_)
HistoryPoints(h) ==
    IF h = << >> THEN 0
    ELSE Len(h[1].points) + Len(h[1].pivots) + HistoryPoints(Tail(h))

\* the step to n keeps the lists within the bound max: the mapper's list
\* grows only while it and the history together hold at most max points, and
\* a session starts only while the `need' points of a whole session still fit
Fits(n, max, need) ==
    /\ Len(n.mapPoints) > Len(mapPoints)
          => Len(n.mapPoints) + HistoryPoints(history) <= max
    /\ (n.mapActive /\ ~ mapActive) => HistoryPoints(history) + need <= max
    /\ (n.trkActive /\ ~ trkActive) => HistoryPoints(history) + need <= max

----------------------------------------------------------------------------
(* Initial state: the useState initialisers of the second App *)

IxInit ==
    /\ view = "landing"
    /\ pos = Null
    /\ history = << >>
    /\ trkActive = FALSE
    /\ trkStart = Null
    /\ trkPivots = << >>
    /\ showEndConfirm = FALSE
    /\ mapActive = FALSE
    /\ mapCompleted = FALSE
    /\ mapPoints = << >>
    /\ isBunker = FALSE
    /\ showMapRestartConfirm = FALSE
    /\ closeCause = "none"

\* a ConfirmDialogue covers the screen: nothing beneath it can be pressed
NoDialogue == ~ showEndConfirm /\ ~ showMapRestartConfirm

----------------------------------------------------------------------------
(* Location source *)

\* watchPosition success callback: setPos(pt), then the render and its effects
Deliver(p, max, need) ==
    LET n == render(St, [St EXCEPT !.pos = p], TRUE, FALSE)
    IN /\ Fits(n, max, need)
       /\ Commit(n)

\* watchPosition error callback: console.warn only
GpsError == UNCHANGED vars

\* no setPos is pending after the first render
QueueInit == queued = << >>

\* watchPosition success callback alone: setPos(pt) puts the update in the
\* queue of the root (createRoot: the render is scheduled, not run, by a
\* callback of the location source)
Callback(p) ==
    /\ Len(queued) < MaxQueued
    /\ queued' = Append(queued, p)
    /\ UNCHANGED <<ixVars, appVars, v1Vars, geoVars, wakeVars>>

\* the scheduled render: every queued setPos is applied, so pos is the last
\* queued sample; then the effects of that one render
RenderQueued(max, need) ==
    /\ queued # << >>
    /\ LET n == render(St, [St EXCEPT !.pos = Last(queued)], TRUE, FALSE)
       IN /\ Fits(n, max, need)
          /\ CommitIx(n)
    /\ queued' = << >>

\* the samples of a queue handled one render each, in order, from state s
RECURSIVE oneByOne(_, _)
oneByOne(s, q) ==
    IF q = << >> THEN s
    ELSE oneByOne(render(s, [s EXCEPT !.pos = Head(q)], TRUE, FALSE), Tail(q))

----------------------------------------------------------------------------
(* Navigation *)

\* landing page, "Distance tracker" card
OpenTrack ==
    /\ view = "landing"
    /\ Commit(render(St, [St EXCEPT !.view = "track"], FALSE, FALSE))

\* landing page, "Green mapper" card
OpenGreen ==
    /\ view = "landing"
    /\ Commit(render(St, [St EXCEPT !.view = "green", !.mapCompleted = FALSE,
                                    !.mapPoints = << >>,
                                    !.closeCause = "none"],
                     FALSE, TRUE))

\* the Home button of the track and green views
Home ==
    /\ view # "landing"
    /\ NoDialogue
    /\ Commit(render(St, [St EXCEPT !.view = "landing", !.trkActive = FALSE,
                                    !.mapActive = FALSE, !.mapCompleted = FALSE,
                                    !.showEndConfirm = FALSE,
                                    !.trkPivots = << >>, !.closeCause = "none"],
                     FALSE, FALSE))

----------------------------------------------------------------------------
(* Track *)

\* currentLegDist
currentLegDist(s) ==
    IF s.pos = Null \/ s.trkStart = Null THEN 0
    ELSE calculateDistance(IF s.trkPivots # << >> THEN Last(s.trkPivots)
                           ELSE s.trkStart, s.pos)

\* the forEach of accumulatedDist over the first n pivots:
\* <<total, lastPoint>> after n rounds
RECURSIVE pivotWalk(_, _, _)
pivotWalk(start, pivots, n) ==
    IF n = 0 THEN <<0, start>>
    ELSE LET before == pivotWalk(start, pivots, n - 1)
         IN <<before[1] + calculateDistance(before[2], pivots[n]), pivots[n]>>

\* accumulatedDist
accumulatedDist(s) ==
    IF s.trkStart = Null \/ s.pos = Null THEN 0
    ELSE LET walked == pivotWalk(s.trkStart, s.trkPivots, Len(s.trkPivots))
         IN walked[1] + calculateDistance(walked[2], s.pos)

\* an addPivot without the limit on the number of pivots
addPivotUnlimited(s) ==
    IF s.pos # Null
    THEN [s EXCEPT !.trkPivots = Append(s.trkPivots, s.pos)]
    ELSE s

\* addPivot
addPivot(s) ==
    IF s.pos # Null /\ Len(s.trkPivots) < MaxPivots
    THEN [s EXCEPT !.trkPivots = Append(s.trkPivots, s.pos)]
    ELSE s

\* an undo that drops the oldest pivot
undoPivotOldest(s) ==
    IF s.trkPivots = << >> THEN s
    ELSE [s EXCEPT !.trkPivots = Tail(s.trkPivots)]

\* undoPivot
undoPivot(s) ==
    [s EXCEPT !.trkPivots = SubSeq(s.trkPivots, 1, Len(s.trkPivots) - 1)]

\* elevDelta
elevDelta(s) ==
    IF s.pos # Null /\ s.trkStart # Null /\ s.pos.alt # NoAlt /\ s.trkStart.alt # NoAlt
    THEN s.pos.alt[1] - s.trkStart.alt[1]
    ELSE 0

\* confirmEndTrack
confirmEndTrack(s) ==
    LET saved == IF s.trkStart # Null /\ s.pos # Null
                 THEN saveRecord(s, [type |-> "Track", bunkerPct |-> 0,
                                     points |-> <<s.trkStart, s.pos>>,
                                     pivots |-> s.trkPivots])
                 ELSE s
    IN [saved EXCEPT !.trkActive = FALSE, !.trkStart = Null,
                     !.trkPivots = << >>, !.showEndConfirm = FALSE]

\* the START / FINISH button of the track view
TrackButton(max, need) ==
    /\ view = "track"
    /\ NoDialogue
    /\ LET s == St
           n == IF ~ s.trkActive
                THEN [s EXCEPT !.trkActive = TRUE, !.trkStart = s.pos,
                               !.trkPivots = << >>]
                ELSE [s EXCEPT !.showEndConfirm = TRUE]
       IN /\ Fits(n, max, need)
          /\ Commit(render(St, n, FALSE, FALSE))

\* "End Track?" dialogue, Confirm & Save
ConfirmEnd ==
    /\ showEndConfirm
    /\ Commit(render(St, confirmEndTrack(St), FALSE, FALSE))

\* "End Track?" dialogue, Cancel
CancelEnd ==
    /\ showEndConfirm
    /\ Commit(render(St, [St EXCEPT !.showEndConfirm = FALSE], FALSE, FALSE))

\* the PIVOT button: rendered while a track is active, disabled at MAX
PivotButton ==
    /\ view = "track"
    /\ NoDialogue
    /\ trkActive
    /\ ~ (Len(trkPivots) >= MaxPivots)
    /\ Commit(render(St, addPivot(St), FALSE, FALSE))

\* the UNDO button: rendered while a track is active and has a pivot
UndoButton ==
    /\ view = "track"
    /\ NoDialogue
    /\ trkActive
    /\ Len(trkPivots) > 0
    /\ Commit(render(St, undoPivot(St), FALSE, FALSE))

----------------------------------------------------------------------------
(* Green mapper *)

\* a main button that closes again when pressed on a closed session
GreenButtonClosesAgain(max, need) ==
    /\ view = "green"
    /\ NoDialogue
    /\ LET s == St
       IN IF ~ s.mapActive /\ ~ s.mapCompleted
          THEN LET n == render(St, [s EXCEPT !.mapPoints =
                                        IF s.pos # Null
                                        THEN <<Tagged(s.pos, "none")>> ELSE << >>,
                                      !.mapActive = TRUE,
                                      !.mapCompleted = FALSE],
                               FALSE, TRUE)
               IN Fits(n, max, need) /\ Commit(n)
          ELSE Commit(render(St, finalizeMapping(s, "forced"), FALSE, FALSE))

\* a main button that starts the next session straight from the closed one
GreenButtonStartsOver(max, need) ==
    /\ view = "green"
    /\ NoDialogue
    /\ LET s == St
       IN IF ~ s.mapActive
          THEN LET n == render(St, [s EXCEPT !.mapPoints =
                                        IF s.pos # Null
                                        THEN <<Tagged(s.pos, "none")>> ELSE << >>,
                                      !.mapActive = TRUE,
                                      !.mapCompleted = FALSE,
                                      !.closeCause = "none"],
                               FALSE, TRUE)
               IN Fits(n, max, need) /\ Commit(n)
          ELSE Commit(render(St, finalizeMapping(s, "forced"), FALSE, FALSE))

\* the START GREEN / CLOSE GREEN / NEW GREEN button
GreenButton(max, need) ==
    /\ view = "green"
    /\ NoDialogue
    /\ LET s == St
       IN IF s.mapCompleted
          THEN Commit(render(St, [s EXCEPT !.mapPoints = << >>,
                                           !.mapCompleted = FALSE,
                                           !.mapActive = FALSE,
                                           !.closeCause = "none"],
                             FALSE, TRUE))
          ELSE IF ~ s.mapActive
          THEN LET n == render(St, [s EXCEPT !.mapPoints =
                                        IF s.pos # Null
                                        THEN <<Tagged(s.pos, "none")>> ELSE << >>,
                                      !.mapActive = TRUE,
                                      !.mapCompleted = FALSE],
                               FALSE, TRUE)
               IN Fits(n, max, need) /\ Commit(n)
          ELSE Commit(render(St, finalizeMapping(s, "forced"), FALSE, FALSE))

\* the BUNKER (HOLD) button is rendered and enabled
BunkerEnabled ==
    /\ view = "green"
    /\ ~ mapCompleted
    /\ mapActive

\* onPointerDown of BUNKER (HOLD)
BunkerDown ==
    /\ BunkerEnabled
    /\ NoDialogue
    /\ Commit(render(St, [St EXCEPT !.isBunker = TRUE], FALSE, FALSE))

\* onPointerUp of BUNKER (HOLD)
BunkerUp ==
    /\ BunkerEnabled
    /\ Commit(render(St, [St EXCEPT !.isBunker = FALSE], FALSE, FALSE))

\* the restart button: rendered while the mapper is active
RestartButton ==
    /\ view = "green"
    /\ NoDialogue
    /\ mapActive
    /\ Commit(render(St, [St EXCEPT !.showMapRestartConfirm = TRUE], FALSE, FALSE))

\* "Restart Mapper?" dialogue, Clear Points
ConfirmRestart ==
    /\ showMapRestartConfirm
    /\ Commit(render(St, [St EXCEPT !.mapPoints = << >>,
                                    !.showMapRestartConfirm = FALSE],
                     FALSE, TRUE))

\* "Restart Mapper?" dialogue, Cancel
CancelRestart ==
    /\ showMapRestartConfirm
    /\ Commit(render(St, [St EXCEPT !.showMapRestartConfirm = FALSE], FALSE, FALSE))

----------------------------------------------------------------------------
(* The App of src/App.tsx *)

\* the state of the App as one value
AppSt == [mode |-> mode, currentPos |-> currentPos,
          isGpsInitializing |-> isGpsInitializing, gpsError |-> gpsError,
          tracking |-> tracking, mapping |-> mapping]

\* the values handlePositionUpdate closes over (its useCallback dependencies;
\* altSource is never changed here: no PressureSensor)
Captured(s) == [trkActive |-> s.tracking.isActive,
                mapActive |-> s.mapping.isActive,
                mapClosed |-> s.mapping.isClosed]

AppInit ==
    /\ mode = "Trk"
    /\ currentPos = Null
    /\ isGpsInitializing = TRUE
    /\ gpsError = FALSE
    /\ tracking = [isActive |-> FALSE, startPoint |-> Null, path |-> << >>,
                   initialAltitude |-> NoAlt, currentAltitude |-> NoAlt]
    /\ mapping = [isActive |-> FALSE, isBunkerActive |-> FALSE,
                  points |-> << >>, isClosed |-> FALSE]
    \* the mount effect has called startGps
    /\ pendingFix = { [trkActive |-> FALSE, mapActive |-> FALSE, mapClosed |-> FALSE] }

\* the updater handlePositionUpdate gives to setTracking
trackingUpdater(prev, newPoint) ==
    IF prev.path # << >>
       /\ calculateDistance(Last(prev.path), newPoint) < PathThreshold
    THEN prev
    ELSE [prev EXCEPT !.path = Append(prev.path, newPoint),
                      !.currentAltitude = newPoint.alt,
                      !.initialAltitude = IF prev.initialAltitude = NoAlt
                                          THEN newPoint.alt
                                          ELSE prev.initialAltitude]

\* the updater handlePositionUpdate gives to setMapping
mappingUpdater(prev, newPoint) ==
    IF prev.points = << >>
    THEN [prev EXCEPT !.points = <<Tagged(newPoint, "green")>>]
    ELSE IF calculateDistance(Last(prev.points), newPoint) >= MovementThreshold
    THEN [prev EXCEPT !.points =
              Append(prev.points,
                     Tagged(newPoint, IF prev.isBunkerActive THEN "bunker" ELSE "green"))]
    ELSE prev

\* handlePositionUpdate as created by a render whose values were c, run on
\* state s with a sample that passed the 500 ms throttle
handlePositionUpdate(c, s, newPoint) ==
    LET s1 == [s EXCEPT !.gpsError = FALSE, !.currentPos = newPoint,
                        !.isGpsInitializing = FALSE]
        s2 == IF c.trkActive
              THEN [s1 EXCEPT !.tracking = trackingUpdater(s1.tracking, newPoint)]
              ELSE s1
    IN IF c.mapActive /\ ~ c.mapClosed
       THEN [s2 EXCEPT !.mapping = mappingUpdater(s2.mapping, newPoint)]
       ELSE s2

\* startNewTracking
startNewTracking(s) ==
    IF s.currentPos = Null THEN s
    ELSE [s EXCEPT !.tracking = [isActive |-> TRUE, startPoint |-> s.currentPos,
                                 path |-> <<s.currentPos>>,
                                 initialAltitude |-> s.currentPos.alt,
                                 currentAltitude |-> s.currentPos.alt]]

\* startNewGreen
startNewGreen(s) ==
    IF s.currentPos = Null THEN s
    ELSE [s EXCEPT !.mapping = [isActive |-> TRUE, isBunkerActive |-> FALSE,
                                points |-> <<Tagged(s.currentPos, "green")>>,
                                isClosed |-> FALSE]]

\* toggleBunker
toggleBunker(s, active) ==
    IF ~ s.mapping.isActive \/ s.mapping.isClosed THEN s
    ELSE IF s.mapping.isBunkerActive = active THEN s
    ELSE [s EXCEPT !.mapping.isBunkerActive = active,
                   !.mapping.points =
                       IF s.currentPos # Null
                       THEN Append(s.mapping.points,
                                   Tagged(s.currentPos,
                                          IF active THEN "bunker" ELSE "green"))
                       ELSE s.mapping.points]

\* the onClick of the Close button
closeGreen(s) == [s EXCEPT !.mapping.isClosed = TRUE]

\* totalDistance of tracking state t: from the first to the last point of path
totalDistance(t) ==
    IF t.isActive /\ Len(t.path) > 1
    THEN calculateDistance(t.path[1], Last(t.path))
    ELSE 0

\* x ?? 0 for an altitude
OrZero(alt) == IF alt = NoAlt THEN 0 ELSE alt[1]

\* elevationChange of tracking state t
elevationChange(t) == OrZero(t.currentAltitude) - OrZero(t.initialAltitude)

\* mapMetrics
mapMetrics(m) ==
    IF Len(m.points) < 2 THEN Null
    ELSE LET open == EdgeSum(m.points, Len(m.points))
             bunkerLen == BunkerSum(m.points, Len(m.points))
             totalLen == IF m.isClosed
                         THEN open + calculateDistance(Last(m.points), m.points[1])
                         ELSE open
         IN [totalLen |-> totalLen, bunkerLen |-> bunkerLen,
             bunkerPct |-> IF totalLen > 0 THEN RoundPct(bunkerLen, totalLen) ELSE 0]

\* commit the render of n; when a dependency of handlePositionUpdate changed,
\* the effect on startGps runs: the watch is replaced and a new
\* getCurrentPosition request is issued with the new handlePositionUpdate
AppCommitSt(n) ==
    /\ mode' = n.mode
    /\ currentPos' = n.currentPos
    /\ isGpsInitializing' = n.isGpsInitializing
    /\ gpsError' = n.gpsError
    /\ tracking' = n.tracking
    /\ mapping' = n.mapping
    /\ UNCHANGED ixVars
    /\ UNCHANGED v1Vars
    /\ UNCHANGED geoVars
    /\ UNCHANGED queueVars

\* the same, the screen wake lock left aside
AppCommit(n) ==
    /\ AppCommitSt(n)
    /\ UNCHANGED wakeVars

\* the step to n keeps the lists within the bound max
AppFits(n, max) ==
    /\ Len(n.mapping.points) > Len(mapping.points) => Len(n.mapping.points) <= max
    /\ Len(n.tracking.path) > Len(tracking.path) => Len(n.tracking.path) <= max

StartGpsIfChanged(n) ==
    IF Captured(n) # Captured(AppSt) THEN {Captured(n)} ELSE {}

\* watchPosition success callback: the handler of the latest render
WatchUpdate(p, max) ==
    LET n == handlePositionUpdate(Captured(AppSt), AppSt, p)
    IN /\ AppFits(n, max)
       /\ AppCommit(n)
       /\ pendingFix' = pendingFix \cup StartGpsIfChanged(n)

\* a getCurrentPosition request is answered: the handler it captured runs
FixUpdate(c, p, max) ==
    /\ c \in pendingFix
    /\ LET n == handlePositionUpdate(c, AppSt, p)
       IN /\ AppFits(n, max)
          /\ AppCommit(n)
          /\ pendingFix' = (pendingFix \ {c}) \cup StartGpsIfChanged(n)

\* a getCurrentPosition request fails or times out: console.warn only
FixFails(c) ==
    /\ c \in pendingFix
    /\ pendingFix' = pendingFix \ {c}
    /\ UNCHANGED <<mode, currentPos, isGpsInitializing, gpsError, tracking, mapping>>
    /\ UNCHANGED ixVars
    /\ UNCHANGED v1Vars
    /\ UNCHANGED geoVars
    /\ UNCHANGED queueVars
    /\ UNCHANGED wakeVars

\* an error callback that also ends the mapping session
WatchErrorEndsMapping ==
    LET n == [AppSt EXCEPT !.gpsError = TRUE, !.mapping.isActive = FALSE]
    IN /\ AppCommit(n)
       /\ pendingFix' = pendingFix \cup StartGpsIfChanged(n)

\* watchPosition error callback: setGpsError(msg)
WatchError ==
    /\ AppCommit([AppSt EXCEPT !.gpsError = TRUE])
    /\ UNCHANGED pendingFix

\* "Force GPS Probe" of the GPS warning: startGps
ForceProbe ==
    /\ gpsError
    /\ AppCommit([AppSt EXCEPT !.gpsError = FALSE])
    /\ pendingFix' = pendingFix \cup {Captured(AppSt)}

\* "Bypass to Manual" of the signal-hunting panel
Bypass ==
    /\ isGpsInitializing
    /\ AppCommit([AppSt EXCEPT !.isGpsInitializing = FALSE])
    /\ UNCHANGED pendingFix

\* header button Grn
ModeGrn ==
    LET n == [AppSt EXCEPT !.mode = "Grn", !.tracking.isActive = FALSE]
    IN /\ AppCommit(n)
       /\ pendingFix' = pendingFix \cup StartGpsIfChanged(n)

\* header button Trk
ModeTrk ==
    /\ AppCommit([AppSt EXCEPT !.mode = "Trk"])
    /\ UNCHANGED pendingFix

\* START TRACKING (footer of the track mode, disabled without a position)
StartTrackingButton ==
    /\ ~ isGpsInitializing
    /\ mode = "Trk"
    /\ currentPos # Null
    /\ LET n == startNewTracking(AppSt)
       IN /\ AppCommit(n)
          /\ pendingFix' = pendingFix \cup StartGpsIfChanged(n)

\* the footer controls of the green mode are rendered
GreenControls == ~ isGpsInitializing /\ mode = "Grn"

\* New Green (disabled without a position)
NewGreenButton ==
    /\ GreenControls
    /\ currentPos # Null
    /\ LET n == startNewGreen(AppSt)
       IN /\ AppCommit(n)
          /\ pendingFix' = pendingFix \cup StartGpsIfChanged(n)

\* Bunker pressed (onTouchStart / onMouseDown) or released
BunkerButton(active, max) ==
    /\ GreenControls
    /\ AppFits(toggleBunker(AppSt, active), max)
    /\ AppCommit(toggleBunker(AppSt, active))
    /\ UNCHANGED pendingFix

\* Close
CloseButton ==
    /\ GreenControls
    /\ LET n == closeGreen(AppSt)
       IN /\ AppCommit(n)
          /\ pendingFix' = pendingFix \cup StartGpsIfChanged(n)

----------------------------------------------------------------------------
(* The screen wake lock of src/App.tsx *)

(* wake.ref is what wakeLockRef.current holds: "none" for null, "held" for a  *)
(* sentinel whose lock is held, "released" for a sentinel the platform has  *)
(* released.  wake.pending counts the wakeLock.request promises not yet     *)
(* settled, wake.lost the locks held whose sentinel was overwritten in the  *)
(* reference, wake.visible is document.visibilityState === 'visible'.       *)

WakeInit == wake = [ref |-> "none", pending |-> 0, lost |-> 0, visible |-> TRUE]

\* requestWakeLock up to its await: the request is in flight
requestWakeLock(w) == [w EXCEPT !.pending = @ + 1]

\* releaseWakeLock
releaseWakeLock(w) == IF w.ref # "none" THEN [w EXCEPT !.ref = "none"] ELSE w

\* the condition of the wake lock effect on state s
sessionOn(s) ==
    s.tracking.isActive \/ (s.mapping.isActive /\ ~ s.mapping.isClosed)

\* the wake lock effect when the render of n follows the render of o: its
\* dependencies are those of handlePositionUpdate; the cleanup of the last
\* run, then the body
wakeEffect(w, o, n) ==
    IF Captured(n) = Captured(o) THEN w
    ELSE IF sessionOn(n)
         THEN requestWakeLock(releaseWakeLock(w))
         ELSE releaseWakeLock(releaseWakeLock(w))

\* commit the render of n with the effects on startGps and on the wake lock
WakeCommit(n) ==
    /\ wakeEffect(wake, AppSt, n).pending <= MaxWakeRequests
    /\ AppCommitSt(n)
    /\ pendingFix' = pendingFix \cup StartGpsIfChanged(n)
    /\ wake' = wakeEffect(wake, AppSt, n)

\* START TRACKING
WakeStartTracking ==
    /\ ~ isGpsInitializing
    /\ mode = "Trk"
    /\ currentPos # Null
    /\ WakeCommit(startNewTracking(AppSt))

\* header button Grn
WakeModeGrn ==
    LET n == [AppSt EXCEPT !.mode = "Grn", !.tracking.isActive = FALSE]
    IN /\ wakeEffect(wake, AppSt, n).pending <= MaxWakeRequests
       /\ WakeCommit(n)

\* New Green
WakeNewGreen ==
    /\ GreenControls
    /\ currentPos # Null
    /\ WakeCommit(startNewGreen(AppSt))

\* Close
WakeClose ==
    /\ GreenControls
    /\ WakeCommit(closeGreen(AppSt))

\* a wakeLock.request promise resolves: the sentinel is stored in wakeLockRef
WakeGranted ==
    /\ wake.pending > 0
    /\ wake.visible
    /\ wake.ref = "held" => wake.lost < MaxWakeRequests
    /\ wake' = [wake EXCEPT !.pending = @ - 1,
                            !.ref = "held",
                            !.lost = IF wake.ref = "held" THEN @ + 1 ELSE @]
    /\ UNCHANGED <<ixVars, appVars, v1Vars, geoVars, queueVars>>

\* a wakeLock.request promise rejects: console.warn only
WakeDenied ==
    /\ wake.pending > 0
    /\ wake' = [wake EXCEPT !.pending = @ - 1]
    /\ UNCHANGED <<ixVars, appVars, v1Vars, geoVars, queueVars>>

\* the page is hidden: the platform releases every screen wake lock;
\* handleVisibilityChange does nothing
PageHidden ==
    /\ wake.visible
    /\ wake' = [wake EXCEPT !.visible = FALSE,
                            !.lost = 0,
                            !.ref = IF @ = "held" THEN "released" ELSE @]
    /\ UNCHANGED <<ixVars, appVars, v1Vars, geoVars, queueVars>>

\* the page is visible again: handleVisibilityChange
PageVisible ==
    /\ ~ wake.visible
    /\ wake.ref # "none" => wake.pending < MaxWakeRequests
    /\ wake' = IF wake.ref # "none"
               THEN requestWakeLock([wake EXCEPT !.visible = TRUE])
               ELSE [wake EXCEPT !.visible = TRUE]
    /\ UNCHANGED <<ixVars, appVars, v1Vars, geoVars, queueVars>>

----------------------------------------------------------------------------
(* The first App of src/index.tsx: its green mapping *)

\* the useState initialiser of grn, also what the trash button sets
V1Idle == [isActive |-> FALSE, isBunkerActive |-> FALSE, points |-> << >>,
           isClosed |-> FALSE]

V1Init ==
    /\ v1Mode = "Trk"
    /\ v1Pos = Null
    /\ grn = V1Idle

\* the updater the watchPosition callback gives to setGrn
v1Updater(prev, pt) ==
    IF prev.points = << >>
       \/ calculateDistance(Last(prev.points), pt) >= V1MovementThreshold
    THEN [prev EXCEPT !.points =
              Append(prev.points,
                     Tagged(pt, IF prev.isBunkerActive THEN "bunker" ELSE "green"))]
    ELSE prev

V1Frame ==
    /\ UNCHANGED ixVars /\ UNCHANGED appVars /\ UNCHANGED geoVars
    /\ UNCHANGED queueVars /\ UNCHANGED wakeVars

\* watchPosition success callback; the watch is registered anew whenever
\* grn.isActive, grn.isBunkerActive or grn.isClosed changed, so the callback
\* reads the values of the latest render
V1Deliver(pt, max) ==
    /\ v1Pos' = pt
    /\ grn' = IF grn.isActive /\ ~ grn.isClosed THEN v1Updater(grn, pt) ELSE grn
    /\ Len(grn'.points) <= max
    /\ UNCHANGED v1Mode
    /\ V1Frame

\* watchPosition error callback: console.warn only
V1GpsError == UNCHANGED vars

\* header buttons TRACK and GREEN
V1SetMode(m) ==
    /\ v1Mode' = m
    /\ UNCHANGED <<v1Pos, grn>>
    /\ V1Frame

\* NEW GREEN
V1NewGreen ==
    /\ v1Mode = "Grn"
    /\ grn' = [isActive |-> TRUE, isBunkerActive |-> FALSE,
               points |-> IF v1Pos # Null THEN <<Tagged(v1Pos, "green")>> ELSE << >>,
               isClosed |-> FALSE]
    /\ UNCHANGED <<v1Mode, v1Pos>>
    /\ V1Frame

\* CLOSE LOOP (disabled below 3 points)
V1CloseLoop ==
    /\ v1Mode = "Grn"
    /\ ~ (Len(grn.points) < V1MinClosePoints)
    /\ grn' = [grn EXCEPT !.isClosed = TRUE]
    /\ UNCHANGED <<v1Mode, v1Pos>>
    /\ V1Frame

\* HOLD FOR BUNKER: onPointerDown (active = TRUE), onPointerUp (FALSE)
V1Bunker(active) ==
    /\ v1Mode = "Grn"
    /\ grn' = [grn EXCEPT !.isBunkerActive = active]
    /\ UNCHANGED <<v1Mode, v1Pos>>
    /\ V1Frame

\* the trash button
V1Trash ==
    /\ v1Mode = "Grn"
    /\ grn' = V1Idle
    /\ UNCHANGED <<v1Mode, v1Pos>>
    /\ V1Frame

----------------------------------------------------------------------------
(* The distance primitive: calculateDistance of every program *)

(* Angles are whole quarter turns (90 degrees), where the trigonometry of  *)
(* the formula is exact in halves: 2 * sin^2 of half the angle is 0, 1 or  *)
(* 2 and the cosine is 1, 0 or -1.  A distance is a count of quarter great *)
(* circles (R * pi / 2); rounding of the floating point is not modelled.   *)

\* latitudes from pole to pole, longitudes up to MaxGridLng quarter turns
GridPoints == {[lat |-> la, lng |-> lo] : la \in {-1, 0, 1},
                                          lo \in (-1)..MaxGridLng}

\* Math.cos of k quarter turns
Cos(k) == LET m == k % 4 IN IF m = 0 THEN 1 ELSE IF m = 2 THEN -1 ELSE 0

\* twice Math.sin(x / 2) * Math.sin(x / 2), x being k quarter turns
SinSqHalf2(k) == LET m == k % 4 IN IF m = 0 THEN 0 ELSE IF m = 2 THEN 2 ELSE 1

\* the value no number equals: Math.sqrt of a negative number
NaN == << >>

\* R * 2 * Math.atan2(Math.sqrt(a), Math.sqrt(1 - a)), a2 being twice a:
\* atan2(0, 1) = 0, atan2(sqrt(1/2), sqrt(1/2)) = pi / 4, atan2(1, 0) = pi / 2
arc(a2) == IF a2 < 0 \/ a2 > 2 THEN NaN ELSE <<a2>>

\* the haversine: a = sin^2(dLat/2) + cos(lat1) * cos(lat2) * sin^2(dLng/2)
haversine(p1, p2) ==
    arc(SinSqHalf2(p2.lat - p1.lat)
        + Cos(p1.lat) * Cos(p2.lat) * SinSqHalf2(p2.lng - p1.lng))

\* calculateDistance of src/unnamed/part_003:
\* a = sin^2(dLat/2) + cos(lat1) * cos(lat2) + sin^2(dLng/2)
calculateDistancePart003(p1, p2) ==
    arc(SinSqHalf2(p2.lat - p1.lat)
        + 2 * Cos(p1.lat) * Cos(p2.lat)
        + SinSqHalf2(p2.lng - p1.lng))

\* the definitions of calculateDistance in the repository
Variants == {"index.tsx:37", "index.tsx:387", "index-v2.tsx", "index-fallback.tsx",
             "part_002", "part_003"}

\* what the calculateDistance of variant v returns
distanceOf(v, p1, p2) ==
    IF v = "part_003" THEN calculateDistancePart003(p1, p2) ELSE haversine(p1, p2)

GeoInit == geo = Null

\* every calculateDistance applied to (a, b) and to (b, a)
Measure(a, b) ==
    /\ geo' = [p1 |-> a, p2 |-> b,
               fwd |-> [v \in Variants |-> distanceOf(v, a, b)],
               rev |-> [v \in Variants |-> distanceOf(v, b, a)]]
    /\ UNCHANGED <<ixVars, appVars, v1Vars, queueVars, wakeVars>>

----------------------------------------------------------------------------
(* Initial state of all programs; specification of the App of src/App.tsx *)

\* the programs after construction
Init == IxInit /\ AppInit /\ V1Init /\ GeoInit /\ QueueInit /\ WakeInit

AppNext ==
    \/ \E p \in ShortSamples : WatchUpdate(p, MaxShortPoints)
    \/ \E c \in pendingFix, p \in ShortSamples : FixUpdate(c, p, MaxShortPoints)
    \/ \E c \in pendingFix : FixFails(c)
    \/ WatchError
    \/ ForceProbe
    \/ Bypass
    \/ ModeGrn
    \/ ModeTrk
    \/ NewGreenButton
    \/ \E active \in BOOLEAN : BunkerButton(active, MaxShortPoints)
    \/ CloseButton

SpecApp == Init /\ [][AppNext]_vars

\* the App of src/App.tsx with its tracking as well, on short lists that
\* only samples extend
FailNext ==
    \/ \E p \in FailSamples : WatchUpdate(p, MaxFailPoints)
    \/ \E c \in pendingFix, p \in FailSamples : FixUpdate(c, p, MaxFailPoints)
    \/ \E c \in pendingFix : FixFails(c)
    \/ WatchError
    \/ ForceProbe
    \/ Bypass
    \/ ModeGrn
    \/ ModeTrk
    \/ StartTrackingButton
    \/ NewGreenButton

SpecFail == Init /\ [][FailNext]_vars

\* the tracking of src/App.tsx on samples of one spot with changing altitude
TipNext ==
    \/ \E p \in ElevSamples : WatchUpdate(p, MaxElevPoints)
    \/ \E c \in pendingFix, p \in ElevSamples : FixUpdate(c, p, MaxElevPoints)
    \/ \E c \in pendingFix : FixFails(c)
    \/ WatchError
    \/ ForceProbe
    \/ Bypass
    \/ ModeGrn
    \/ ModeTrk
    \/ StartTrackingButton

SpecTip == Init /\ [][TipNext]_vars

\* the sessions of src/App.tsx with the screen wake lock
WakeNext ==
    \/ \E p \in FailSamples : WatchUpdate(p, MaxFailPoints)
    \/ ModeTrk
    \/ WakeStartTracking
    \/ WakeModeGrn
    \/ WakeNewGreen
    \/ WakeClose
    \/ WakeGranted
    \/ WakeDenied
    \/ PageHidden
    \/ PageVisible

SpecWake == Init /\ [][WakeNext]_vars

----------------------------------------------------------------------------
(* Specifications of the second and of the first App of src/index.tsx *)

\* points of a walk that can close by itself
WalkNeed == MinVertexCount + 2
\* points of the smallest polygon
ShortNeed == MinClosedPoints + 1
\* points of a track record: the two ends and the pivots
TrackNeed == 2 + MaxPivots

\* a green walk long enough for auto-closure, bunker control untouched
GreenNext ==
    \/ \E p \in WalkSamples : Deliver(p, MaxPoints, WalkNeed)
    \/ GpsError
    \/ OpenGreen
    \/ Home
    \/ GreenButton(MaxPoints, WalkNeed)
    \/ RestartButton
    \/ ConfirmRestart
    \/ CancelRestart

SpecGreen == Init /\ [][GreenNext]_vars

\* points of the shortest walk the effect can close
StrideNeed == MinVertexCount + 1

\* one green walk whose perimeter exceeds 5 m while its last vertex is still
\* 1.0 m or more from the first
StrideNext ==
    \/ \E p \in StrideSamples : Deliver(p, MaxStridePoints, StrideNeed)
    \/ GpsError
    \/ OpenGreen
    \/ Home
    \/ GreenButton(MaxStridePoints, StrideNeed)

SpecStride == Init /\ [][StrideNext]_vars

\* one green walk in paces of 0.75 m, long enough for a sample that is both
\* admitted and due to close a list that already fulfils the closure test
PaceNext ==
    \/ \E p \in PaceSamples : Deliver(p, MaxPacePoints, MaxPacePoints)
    \/ GpsError
    \/ OpenGreen
    \/ Home
    \/ GreenButton(MaxPacePoints, MaxPacePoints)

SpecPace == Init /\ [][PaceNext]_vars

\* a short green walk where callbacks of the location source and the renders
\* they schedule are separate steps; the buttons are pressed while no update
\* of pos is waiting, so the samples of one queue were all delivered in the
\* session state the render finds
QueueNext ==
    \/ \E p \in ShortSamples : Callback(p)
    \/ RenderQueued(MaxShortPoints, ShortNeed)
    \/ GpsError
    \/ (queued = << >> /\ OpenGreen)
    \/ (queued = << >> /\ Home)
    \/ (queued = << >> /\ GreenButton(MaxShortPoints, ShortNeed))

SpecQueue == Init /\ [][QueueNext]_vars

\* the green mappers of the second App of src/index.tsx and of src/App.tsx
\* side by side, on lists of at most MaxFailPoints vertices
MappersNext ==
    \/ \E p \in FailSamples : Deliver(p, MaxFailPoints, MaxFailPoints)
    \/ OpenGreen
    \/ GreenButton(MaxFailPoints, MaxFailPoints)
    \/ RestartButton
    \/ ConfirmRestart
    \/ CancelRestart
    \/ \E p \in FailSamples : WatchUpdate(p, MaxFailPoints)
    \/ \E c \in pendingFix, p \in FailSamples : FixUpdate(c, p, MaxFailPoints)
    \/ ModeGrn
    \/ NewGreenButton
    \/ \E active \in BOOLEAN : BunkerButton(active, MaxFailPoints)
    \/ CloseButton

SpecMappers == Init /\ [][MappersNext]_vars

\* a short green walk with the bunker control
BunkerNext ==
    \/ \E p \in ShortSamples : Deliver(p, MaxShortPoints, ShortNeed)
    \/ GpsError
    \/ OpenGreen
    \/ Home
    \/ GreenButton(MaxShortPoints, ShortNeed)
    \/ BunkerDown
    \/ BunkerUp
    \/ RestartButton
    \/ ConfirmRestart
    \/ CancelRestart

SpecBunker == Init /\ [][BunkerNext]_vars

\* the track view
TrackNext ==
    \/ \E p \in ShortSamples : Deliver(p, MaxShortPoints + MaxPivots, TrackNeed)
    \/ GpsError
    \/ OpenTrack
    \/ Home
    \/ TrackButton(MaxShortPoints + MaxPivots, TrackNeed)
    \/ ConfirmEnd
    \/ CancelEnd
    \/ PivotButton
    \/ UndoButton

SpecTrack == Init /\ [][TrackNext]_vars

\* points of a track record without pivots: its two ends
ElevNeed == 2

\* the track view on one spot, the altitude of the samples varying
ElevNext ==
    \/ \E p \in ElevSamples : Deliver(p, MaxElevPoints, ElevNeed)
    \/ GpsError
    \/ OpenTrack
    \/ Home
    \/ TrackButton(MaxElevPoints, ElevNeed)
    \/ ConfirmEnd
    \/ CancelEnd

SpecElev == Init /\ [][ElevNext]_vars

\* the green mapping of the first App
V1Next ==
    \/ \E pt \in ShortSamples : V1Deliver(pt, MaxShortPoints)
    \/ V1GpsError
    \/ \E m \in {"Trk", "Grn"} : V1SetMode(m)
    \/ V1NewGreen
    \/ V1CloseLoop
    \/ \E active \in BOOLEAN : V1Bunker(active)
    \/ V1Trash

SpecV1 == Init /\ [][V1Next]_vars

\* the distance primitive applied to every pair of grid points
GeoNext == \E a \in GridPoints, b \in GridPoints : Measure(a, b)

SpecGeo == Init /\ [][GeoNext]_vars

----------------------------------------------------------------------------
(* Properties of the green mapper of src/index.tsx *)

\* C1: a mapping session that is closed has at least 3 vertices.
C1_ClosedHasThreeVertices ==
    mapCompleted => Len(mapPoints) >= 3

C3_AutoCloseOnlyWhenDue ==
    [][(closeCause' = "auto" /\ closeCause # "auto")
          => /\ Len(mapPoints') > 5
             /\ EdgeSum(mapPoints', Len(mapPoints')) > 20
             /\ calculateDistance(pos', mapPoints'[1]) < 4]_vars

\* C8: for a closed polygon the bunker percentage is 0 when no vertex is
\* tagged bunker and 100 when every vertex is tagged bunker.
C8_BunkerPctExtremes ==
    (mapCompleted /\ Len(mapPoints) >= 3) =>
        LET m == areaMetrics(mapPoints, mapCompleted)
        IN /\ (\A i \in 1..Len(mapPoints) : mapPoints[i].type # "bunker")
                 => m.bunkerPct = 0
           /\ (/\ \A i \in 1..Len(mapPoints) : mapPoints[i].type = "bunker"
               /\ m.perimeter > 0)
                 => m.bunkerPct = 100

\* C9: the perimeter of a polygon (3 vertices or more) is the sum of the
\* edges between consecutive vertices, plus the closing edge if and only if
\* the session is closed.
C9_ClosingEdgeIffClosed ==
    Len(mapPoints) >= 3 =>
        areaMetrics(mapPoints, mapCompleted).perimeter
          = EdgeSum(mapPoints, Len(mapPoints))
            + (IF mapCompleted
               THEN calculateDistance(Last(mapPoints), mapPoints[1]) ELSE 0)

\* C11: pressing or releasing the bunker control changes no recorded vertex
\* (number, position, tag), and while a session goes on every recorded
\* vertex stays as it is and a vertex appended by a sample carries the tag
\* of the bunker control at that moment.
C11_BunkerTagsOnlyLaterVertices ==
    [][/\ isBunker' # isBunker => mapPoints' = mapPoints
       /\ (/\ mapActive
           /\ mapActive'
           /\ showMapRestartConfirm' = showMapRestartConfirm)
            => /\ Len(mapPoints') >= Len(mapPoints)
               /\ SubSeq(mapPoints', 1, Len(mapPoints)) = mapPoints
               /\ \A i \in (Len(mapPoints) + 1)..Len(mapPoints') :
                     mapPoints'[i].type = IF isBunker THEN "bunker" ELSE "green"]_vars

\* C11, its case: a vertex recorded while the control was held is still
\* tagged bunker after the control was released, next to a later green one
C11_BunkerVertexKept ==
    /\ mapActive
    /\ ~ isBunker
    /\ \E i \in 1..(Len(mapPoints) - 1) :
          /\ mapPoints[i].type = "bunker"
          /\ mapPoints[i + 1].type = "green"


\* C12: a started session holds exactly the first sample, tagged green and
\* not closed; so the first vertex of a session is never tagged bunker (a
\* vertex without a type counts as green).
C12_FirstVertexGreen ==
    mapPoints # << >> => mapPoints[1].type # "bunker"

\* C22: every sample delivered while a mapping session is active is handled
\* to completion before the next one, in delivery order, and none is skipped:
\* a render leaves the session as handling the delivered samples one by one
\* leaves it.
C22_EverySampleHandledInOrder ==
    [][(mapActive /\ RenderQueued(MaxShortPoints, ShortNeed))
          => LET seq == oneByOne(St, queued)
             IN /\ mapPoints' = seq.mapPoints
                /\ mapActive' = seq.mapActive
                /\ mapCompleted' = seq.mapCompleted]_vars

\* C25: the Green record saved when a mapping session closes holds exactly
\* the vertex list of the closed session, the vertex of the sample that
\* triggered the closure included.
C25_RecordIsClosedVertexList ==
    [][(~ mapCompleted /\ mapCompleted' /\ history' # history)
          => /\ history'[1].type = "Green"
             /\ history'[1].points = mapPoints']_vars

\* C26: the session of the green mapper is never active and closed at once,
\* and from the closed state the main button leads to the idle state (no
\* vertices, not active, not closed), never straight to an active session.
C26_ClosedThenIdle ==
    [][/\ ~ (mapActive /\ mapCompleted)
       /\ ~ (mapActive' /\ mapCompleted')
       /\ (mapCompleted /\ GreenButton(MaxShortPoints, ShortNeed))
            => /\ mapPoints' = << >>
               /\ ~ mapActive'
               /\ ~ mapCompleted']_vars

\* a closed session of three vertices with the main button in reach
C26_ClosedSession ==
    /\ mapCompleted
    /\ ~ mapActive
    /\ Len(mapPoints) = ShortNeed
    /\ ENABLED GreenButton(MaxShortPoints, ShortNeed)

\* C27: every new mapping session starts with bunker mode inactive, however
\* the previous session ended.
C27_SessionStartsWithoutBunker ==
    [][(~ mapActive /\ mapActive') => ~ isBunker']_vars

\* C29: one closure of a mapping session adds at most one Green record: a
\* step puts at most one record in front of the history, a Green record only
\* in the step that closes an active session, and none while the session is
\* closed.
C29_OneRecordPerClosure ==
    [][/\ Len(history') <= Len(history) + 1
       /\ Len(history') > Len(history)
            => /\ Tail(history') = history
               /\ history'[1].type = "Green"
                    => /\ mapActive /\ ~ mapCompleted
                       /\ ~ mapActive' /\ mapCompleted'
       /\ mapCompleted => history' = history]_vars

\* a session that closed by itself and saved its one record, with a further
\* sample delivered since
C29_ClosedAndSampledOn ==
    /\ closeCause = "auto"
    /\ mapCompleted
    /\ Len(history) = 1
    /\ pos # Null
    /\ Last(mapPoints).lat # pos.lat

\* C19: a sample the position filter rejects is a no-op for the mapping
\* session: no vertex is appended, the session is not closed and nothing is
\* saved; a session closes by itself only in a step that appends a vertex.
C19_RejectedSampleIsNoOp ==
    [][/\ \A p \in StrideSamples :
            (/\ mapActive
             /\ admitSample(mapPoints, p, isBunker) = mapPoints
             /\ Deliver(p, MaxStridePoints, StrideNeed))
               => /\ mapPoints' = mapPoints
                  /\ mapActive'
                  /\ mapCompleted' = mapCompleted
                  /\ history' = history
       /\ (closeCause # "auto" /\ closeCause' = "auto")
               => Len(mapPoints') > Len(mapPoints)]_vars

----------------------------------------------------------------------------
(* Properties of the green mappers of src/index.tsx and of src/App.tsx *)

\* list a is the beginning of list b
IsPrefix(a, b) == Len(a) <= Len(b) /\ SubSeq(b, 1, Len(a)) = a

\* C24: while a mapping session is active a step keeps the recorded vertices
\* and can only append at the end: the vertex list before the step is a
\* prefix of the list after it, one vertex longer at most, except on the
\* explicit restart (index.tsx) and on a new start (App.tsx).
C24_VerticesAppendOnly ==
    [][/\ (mapActive /\ ~ ConfirmRestart)
            => /\ IsPrefix(mapPoints, mapPoints')
               /\ Len(mapPoints') <= Len(mapPoints) + 1
       /\ (mapping.isActive /\ ~ NewGreenButton)
            => /\ IsPrefix(mapping.points, mapping'.points)
               /\ Len(mapping'.points) <= Len(mapping.points) + 1]_vars

\* both mappers hold a session of two vertices, the second one appended
C24_BothAppended ==
    /\ mapActive /\ Len(mapPoints) = 2 /\ Last(mapPoints).lat = pos.lat
    /\ mapping.isActive /\ Len(mapping.points) = 2
    /\ Last(mapping.points).lat = currentPos.lat

----------------------------------------------------------------------------
(* Properties of the track of src/index.tsx *)

\* the anchors of a track: the start, when there is one, then the pivots
Anchors(start, pivots) == IF start = Null THEN pivots ELSE <<start>> \o pivots

\* C4: a track never has more than 3 pivots, and addPivot on a track that
\* has 3 leaves the pivots as they are.
C4_AtMostThreePivots ==
    /\ Len(trkPivots) <= 3
    /\ Len(trkPivots) = 3 => addPivot(St).trkPivots = trkPivots

\* C4, its case: an active track holding 3 pivots, with a sample to add
C4_ThreePivots ==
    /\ trkActive
    /\ pos # Null
    /\ Len(trkPivots) = 3

C5_ActiveTrackHasStart ==
    trkActive => trkStart # Null

\* C7: with 0 to 3 pivots the total distance of a track is the sum of its
\* legs in anchor order up to the tip, the leg distance is the distance from
\* the last anchor to the tip, and without pivots the two are equal.
C7_TotalIsSumOfLegs ==
    LET anchors == Anchors(trkStart, trkPivots)
        route == Append(anchors, pos)
    IN (trkActive /\ pos # Null /\ anchors # << >>) =>
          /\ accumulatedDist(St) = EdgeSum(route, Len(route))
          /\ currentLegDist(St) = calculateDistance(Last(anchors), pos)
          /\ trkPivots = << >> => accumulatedDist(St) = currentLegDist(St)

\* C7 on the tracks that have a start anchor: there the equalities hold
\* for every number of pivots
C7_SumOfLegsFromStart ==
    trkStart # Null => C7_TotalIsSumOfLegs

\* C10: a pivot is recorded only at least 0.5 m from the last anchor, so
\* consecutive anchors (the start, then the pivots) are at least 0.5 m apart.
C10_PivotsFiltered ==
    LET anchors == Anchors(trkStart, trkPivots)
    IN \A i \in 1..(Len(anchors) - 1) :
          calculateDistance(anchors[i], anchors[i + 1]) >= 2

\* C15: the elevation delta is the altitude of the tip minus the altitude
\* of the start anchor when both are known, and otherwise it is "no data",
\* an outcome that is none of the deltas two altitudes can give.
C15_ElevationDeltaOrNoData ==
    (trkActive /\ trkStart # Null /\ pos # Null) =>
        IF pos.alt # NoAlt /\ trkStart.alt # NoAlt
        THEN elevDelta(St) = pos.alt[1] - trkStart.alt[1]
        ELSE elevDelta(St) \notin (-MaxAlt)..MaxAlt

\* C28: whenever no track is active, no start anchor and no pivot is
\* retained, and the total distance is 0.
C28_IdleTrackIsEmpty ==
    ~ trkActive => /\ trkStart = Null
                   /\ trkPivots = << >>
                   /\ accumulatedDist(St) = 0

----------------------------------------------------------------------------
(* Properties of the green mapping of src/App.tsx *)

\* C6: closing by command an active session of fewer than 3 vertices fails:
\* no step sets isClosed on an active mapping that holds fewer than 3
\* vertices.
C6_ForceCloseNeedsThreeVertices ==
    [][(mapping.isActive /\ ~ mapping.isClosed /\ mapping'.isClosed)
          => Len(mapping.points) >= 3]_vars

\* C16: a failure of the location source (the watch reports an error, a
\* one-shot request fails) changes neither the tracking nor the mapping
\* session nor the last good sample, and the next good sample is handled
\* as it would have been without the failure.
C16_SourceFailureKeepsSessions ==
    [][/\ (WatchError \/ \E c \in pendingFix : FixFails(c))
            => /\ tracking' = tracking
               /\ mapping' = mapping
               /\ currentPos' = currentPos
       /\ \A p \in FailSamples :
             (gpsError /\ WatchUpdate(p, MaxFailPoints))
                => LET usual == handlePositionUpdate(
                                    Captured(AppSt),
                                    [AppSt EXCEPT !.gpsError = FALSE], p)
                   IN /\ tracking' = usual.tracking
                      /\ mapping' = usual.mapping
                      /\ currentPos' = p
                      /\ ~ gpsError']_vars

\* C16, its case: the source has failed while a track and a mapping
\* session each hold points, and no good sample has come since
C16_FailedDuringSessions ==
    /\ gpsError
    /\ tracking.isActive
    /\ Len(tracking.path) >= 2
    /\ mapping.isActive
    /\ ~ mapping.isClosed
    /\ Len(mapping.points) >= 2

\* C21: every vertex of a mapping session of src/App.tsx was admitted by the
\* position filter: any two consecutive vertices are at least 0.5 m apart.
C21_AppVerticesFiltered ==
    \A i \in 1..(Len(mapping.points) - 1) :
        calculateDistance(mapping.points[i], mapping.points[i + 1]) >= MovementThreshold

\* C23: while a track of src/App.tsx is active the tip behind the displayed
\* distance and elevation is the latest delivered sample: no sample the
\* watch delivers is kept from it by the movement filter.
C23_TipIsLatestSample ==
    [][\A p \in ElevSamples :
          (tracking.isActive /\ WatchUpdate(p, MaxElevPoints))
             => /\ Last(tracking'.path) = p
                /\ totalDistance(tracking')
                      = calculateDistance(tracking'.startPoint, p)
                /\ elevationChange(tracking')
                      = OrZero(p.alt) - OrZero(tracking'.initialAltitude)]_vars

\* C18: once a mapping session of src/App.tsx is closed its vertex list does
\* not change while it stays closed (New Green, which starts a new session,
\* opens it again), whichever location callback runs, a getCurrentPosition
\* handler registered before the close included.
C18_ClosedVerticesImmutable ==
    [][(mapping.isClosed /\ mapping'.isClosed)
          => mapping'.points = mapping.points]_vars

\* C30: whenever neither a track nor an unclosed mapping session is active
\* in src/App.tsx, no screen wake lock is held.
C30_NoLockWithoutSession ==
    ~ sessionOn(AppSt) => wake.ref # "held" /\ wake.lost = 0

----------------------------------------------------------------------------
(* Properties of the green mapping of the first App of src/index.tsx *)

\* C13: while the mapping session is idle or closed, neither a sample nor
\* a press or release of the bunker control changes the vertices, the
\* closed flag or the bunker mode.
C13_OnlyActiveTakesSamplesAndBunker ==
    [][((~ grn.isActive \/ grn.isClosed)
        /\ (\/ \E pt \in ShortSamples : V1Deliver(pt, MaxShortPoints)
            \/ \E active \in BOOLEAN : V1Bunker(active)))
          => grn' = grn]_vars

----------------------------------------------------------------------------
(* Properties of the distance primitive *)

\* C17: every calculateDistance is symmetric, is zero on coincident points,
\* and computes the haversine
\* a = sin^2(dLat/2) + cos(lat1) * cos(lat2) * sin^2(dLng/2).
C17_SymmetricZeroSameHaversine ==
    geo # Null =>
        \A v \in Variants :
            /\ geo.fwd[v] = geo.rev[v]
            /\ geo.p1 = geo.p2 => geo.fwd[v] = <<0>>
            /\ geo.fwd[v] = haversine(geo.p1, geo.p2)

====
